---- MODULE Spec2Model ----
(***************************************************************************)
(* Model of modify_svg.py: the SVG colour-to-class pipeline.               *)
(*                                                                         *)
(* Strings are sequences of symbols.  A symbol is either a punctuation     *)
(* character ("#", "-", ":", ";", " ", "\t", ".", "{", "}"), the line     *)
(* break and indentation "\n        " between CSS rules, or a run of       *)
(* alphanumeric characters that the program never looks inside ("fill",    *)
(* "red", "f00", "m1").  Python's split, strip, join, startswith, regular  *)
(* expressions and dictionary lookups are modelled on these sequences.     *)
(***************************************************************************)
EXTENDS Integers, Sequences, FiniteSets, TLC

VARIABLES
    color_mapping,  \* replace_color: the color_mapping argument (a dict)
    element_in,     \* replace_color: attrib of the loop element before its iteration
    element,        \* replace_color: attrib of the loop element after its iteration
    rc_status,      \* replace_color: "start", "visited", "error" or "done"
    style_element,  \* update_svg_style: the <style> element of the tree
    new_colors,     \* update_svg_style: the new_colors argument (a dict, in its order)
    style_in,       \* update_svg_style: style_content as line 77 read it in the first run
    style_out,      \* update_svg_style: the text each run so far has written (line 106)
    tree,           \* deal_with_markers: attrib of the elements below the root, in document order
    tree_in,        \* deal_with_markers: tree as it was when deal_with_markers was called
    force_fill,     \* deal_with_markers: the force_fill argument
    cursor,         \* deal_with_markers: the element and the chunk of its style the loops are at
    dm_status,      \* deal_with_markers: "running", "error" or "done"
    themes_ini,     \* the sections of themes.ini as configparser reads them
    mapping_ini,    \* the section color.mapping of color_mapping.ini (a dict)
    theme_colors,   \* __main__: what load_theme_colors(args.theme) returned (line 250)
    lm_status       \* __main__: "start", "themes", "mapping" or "error"

rc_vars == <<color_mapping, element_in, element, rc_status>>

us_vars == <<style_element, new_colors, style_in, style_out>>

dm_vars == <<tree, tree_in, force_fill, cursor, dm_status>>

lm_vars == <<themes_ini, mapping_ini, theme_colors, lm_status>>

vars == <<rc_vars, us_vars, dm_vars, lm_vars>>

----------------------------------------------------------------------------
(* Bounds *)

MaxDecls == 2       \* at most this many ';'-separated chunks in a style attribute

MaxRules == 2       \* at most this many rules in the style text of the input

MaxThemeColors == 2 \* at most this many colours in the theme table

MaxRuns == 2        \* update_svg_style is run at most this many times

MaxElems == 2       \* at most this many elements that carry marker references

----------------------------------------------------------------------------
(* Python string primitives *)

WS == {" ", "\t"}

\* str.split(sep) with a one-character separator
Split(s, sep) ==
    LET RECURSIVE F(_, _, _)
        F(i, cur, acc) ==
            IF i > Len(s) THEN Append(acc, cur)
            ELSE IF s[i] = sep THEN F(i + 1, <<>>, Append(acc, cur))
            ELSE F(i + 1, Append(cur, s[i]), acc)
    IN F(1, <<>>, <<>>)

\* str.strip()
Strip(s) ==
    LET nonws == {i \in 1..Len(s) : s[i] \notin WS}
    IN IF nonws = {} THEN <<>>
       ELSE LET lo == CHOOSE i \in nonws : \A j \in nonws : i <= j
                hi == CHOOSE i \in nonws : \A j \in nonws : j <= i
            IN SubSeq(s, lo, hi)

\* sep.join(parts)
RECURSIVE Join(_, _)
Join(parts, sep) ==
    IF Len(parts) = 0 THEN <<>>
    ELSE IF Len(parts) = 1 THEN parts[1]
    ELSE parts[1] \o <<sep>> \o Join(Tail(parts), sep)

\* the elements of a sequence, as a set
Range(f) == {f[i] : i \in DOMAIN f}

\* every order in which iterating a Python set may yield its members
RECURSIVE Orders(_)
Orders(S) ==
    IF S = {} THEN {<<>>}
    ELSE UNION {{<<x>> \o o : o \in Orders(S \ {x})} : x \in S}

\* dict without one key (del d[k])
Without(d, k) == [a \in (DOMAIN d) \ {k} |-> d[a]]

\* dict with one key set (d[k] = v)
With(d, k, v) == [a \in (DOMAIN d) \cup {k} |-> IF a = k THEN v ELSE d[a]]

----------------------------------------------------------------------------
(* replace_color *)

\* class Attribute: is_set, and value (has_value = FALSE stands for value None)
Attribute == [is_set |-> FALSE, has_value |-> FALSE, value |-> <<>>]

\* one chunk of the loop of modify_style_attribute; st is the loop's state
\* [err, updated_style, fill_attr, stroke_attr]
StyleChunk(st, style, mapping) ==
    LET parts == Split(style, ":")
    IN IF Len(parts) # 2 THEN [st EXCEPT !.err = TRUE]
       ELSE LET attr == Strip(parts[1])
                value == Strip(parts[2])
            IN IF attr = <<"fill">> /\ value \in DOMAIN mapping
               THEN [st EXCEPT !.fill_attr =
                        IF value # <<"none">>
                        THEN [is_set |-> TRUE, has_value |-> TRUE, value |-> value]
                        ELSE [@ EXCEPT !.is_set = TRUE]]
               ELSE IF attr = <<"stroke">> /\ value \in DOMAIN mapping
               THEN [st EXCEPT !.stroke_attr =
                        IF value # <<"none">>
                        THEN [is_set |-> TRUE, has_value |-> TRUE, value |-> value]
                        ELSE [@ EXCEPT !.is_set = TRUE]]
               ELSE [st EXCEPT !.updated_style = Append(@, style)]

\* modify_style_attribute: the new style string, the two Attribute objects as
\* it leaves them, and err = TRUE when the unpacking at line 128 raises
modify_style_attribute(style_attr, mapping) ==
    LET st0 == [err |-> FALSE, updated_style |-> <<>>,
                fill_attr |-> Attribute, stroke_attr |-> Attribute]
        chunks == Split(Strip(style_attr), ";")
        RECURSIVE Loop(_, _)
        Loop(i, st) ==
            IF st.err \/ i > Len(chunks) THEN st
            ELSE Loop(i + 1, StyleChunk(st, chunks[i], mapping))
        out == Loop(1, st0)
    IN IF Strip(style_attr) = <<>>
       THEN [err |-> FALSE, style |-> <<>>,
             fill_attr |-> Attribute, stroke_attr |-> Attribute]
       ELSE [err |-> out.err, style |-> Join(out.updated_style, ";"),
             fill_attr |-> out.fill_attr, stroke_attr |-> out.stroke_attr]

\* mutant: the plain attribute is read whatever the style set
ResolveAttr_PlainWins(attrib, name, from_style) ==
    IF name \in DOMAIN attrib
    THEN [is_set |-> TRUE, has_value |-> TRUE, value |-> attrib[name]]
    ELSE from_style

\* lines 154-160: the plain attribute is read when the style did not set the property
ResolveAttr(attrib, name, from_style) ==
    IF name \in DOMAIN attrib /\ ~from_style.is_set
    THEN [is_set |-> TRUE, has_value |-> TRUE, value |-> attrib[name]]
    ELSE from_style

\* lines 166 and 170: attr.is_set and attr.value in color_mapping
Matched(attr, mapping) ==
    attr.is_set /\ attr.has_value /\ attr.value \in DOMAIN mapping

\* lines 162-165: the set of class strings the element starts with
InitialClasses(attrib) ==
    IF "class" \notin DOMAIN attrib THEN {}
    ELSE {Strip(c) : c \in Range(Split(attrib["class"], " "))}

\* lines 166-173: the class set after the fill and stroke classes are added
FinalClasses(attrib, fill_attr, stroke_attr, mapping) ==
    InitialClasses(attrib)
    \cup (IF Matched(fill_attr, mapping)
          THEN {<<"fill", "-">> \o mapping[fill_attr.value]} ELSE {})
    \cup (IF Matched(stroke_attr, mapping)
          THEN {<<"stroke", "-">> \o mapping[stroke_attr.value]} ELSE {})

\* mutant: the plain attributes are never deleted
DeleteMatched_Keep(attrib, fill_attr, stroke_attr, mapping) == attrib

\* lines 168-169 and 172-173: the matched plain attributes are deleted
DeleteMatched(attrib, fill_attr, stroke_attr, mapping) ==
    LET a1 == IF Matched(fill_attr, mapping) THEN Without(attrib, "fill") ELSE attrib
    IN IF Matched(stroke_attr, mapping) THEN Without(a1, "stroke") ELSE a1

\* lines 174-175: the class attribute is written when the set is not empty;
\* order is the order in which the set is iterated by join
WriteClass(attrib, classes, order) ==
    IF classes = {} THEN attrib
    ELSE With(attrib, "class", Strip(Join(order, " ")))

\* the body of the loop of replace_color (lines 148-175) on one element
ReplaceColorBody(attrib, mapping, order) ==
    LET ms == modify_style_attribute(attrib["style"], mapping)
        styled == IF "style" \in DOMAIN attrib THEN With(attrib, "style", ms.style)
                  ELSE attrib
        fill_attr == ResolveAttr(attrib, "fill",
                        IF "style" \in DOMAIN attrib THEN ms.fill_attr ELSE Attribute)
        stroke_attr == ResolveAttr(attrib, "stroke",
                        IF "style" \in DOMAIN attrib THEN ms.stroke_attr ELSE Attribute)
    IN WriteClass(DeleteMatched(styled, fill_attr, stroke_attr, mapping),
                  FinalClasses(attrib, fill_attr, stroke_attr, mapping), order)

\* the orders in which line 175 may iterate the class set of the element
ClassOrders(attrib, mapping) ==
    LET ms == modify_style_attribute(attrib["style"], mapping)
        fill_attr == ResolveAttr(attrib, "fill",
                        IF "style" \in DOMAIN attrib THEN ms.fill_attr ELSE Attribute)
        stroke_attr == ResolveAttr(attrib, "stroke",
                        IF "style" \in DOMAIN attrib THEN ms.stroke_attr ELSE Attribute)
    IN Orders(FinalClasses(attrib, fill_attr, stroke_attr, mapping))

\* whether the iteration on this element raises (line 128)
ReplaceColorRaises(attrib, mapping) ==
    "style" \in DOMAIN attrib /\ modify_style_attribute(attrib["style"], mapping).err

----------------------------------------------------------------------------
(* load_theme_colors and load_color_mapping *)

\* the state of the variables of the loaders while they are not running
LoadersIdle ==
    /\ themes_ini = <<>>
    /\ mapping_ini = <<>>
    /\ theme_colors = <<>>
    /\ lm_status = "idle"

\* f"#{value}" (lines 223, 228 and 240)
Hash(value) == <<"#">> \o value

\* {key: f"#{value}" for key, value in config[theme].items()} (lines 223, 228)
HashValues(items) == [i \in DOMAIN items |-> [name |-> items[i].name, value |-> Hash(items[i].value)]]

\* theme in config (line 219); DEFAULT is always a section of a ConfigParser
InConfig(cfg, theme) ==
    theme = "DEFAULT" \/ \E i \in DOMAIN cfg : cfg[i].name = theme

\* config[theme].items()
Items(cfg, theme) ==
    IF theme = "DEFAULT" THEN <<>>
    ELSE cfg[CHOOSE i \in DOMAIN cfg : cfg[i].name = theme].items

\* load_theme_colors(theme) for a theme of the file (lines 222-223)
load_theme_colors(cfg, theme) == HashValues(Items(cfg, theme))

\* load_theme_colors(None) (lines 225-229): every section, DEFAULT first
load_all_theme_colors(cfg) ==
    <<[name |-> "DEFAULT", value |-> <<>>]>>
    \o [i \in DOMAIN cfg |-> [name |-> cfg[i].name, value |-> HashValues(cfg[i].items)]]

\* line 240: color_mapping.update({f"#{value}": key for key, value in colors.items()})
UpdateFromTheme(mapping, colors) ==
    LET RECURSIVE F(_, _)
        F(i, m) == IF i > Len(colors) THEN m
                   ELSE F(i + 1, With(m, Hash(colors[i].value), colors[i].name))
    IN F(1, mapping)

\* load_color_mapping (lines 231-241)
load_color_mapping(cfg, base) ==
    LET all == load_all_theme_colors(cfg)
        RECURSIVE F(_, _)
        F(i, m) == IF i > Len(all) THEN m
                   ELSE F(i + 1, UpdateFromTheme(m, all[i].value))
    IN F(1, base)

----------------------------------------------------------------------------
(* deal_with_markers *)

\* the state of the variables of deal_with_markers while it is not running
MarkersIdle ==
    /\ tree = <<>>
    /\ tree_in = <<>>
    /\ force_fill = FALSE
    /\ cursor = [el |-> 0, ch |-> 0]
    /\ dm_status = "idle"
    /\ LoadersIdle

\* regex.match(style.strip()) with the pattern of line 184:
\* [matched, marker_id]; .* runs to the last ")" of the chunk
MarkerMatch(style) ==
    LET t == Strip(style)
        closing == {k \in 8..Len(t) : t[k] = ")"}
        ok == /\ Len(t) >= 8
              /\ t[1] = "marker" /\ t[2] = "-" /\ t[3] \in {"start", "end", "mid"}
              /\ t[4] = ":" /\ t[5] = "url" /\ t[6] = "(" /\ t[7] = "#"
              /\ closing # {}
    IN IF ok
       THEN [matched |-> TRUE,
             marker_id |-> SubSeq(t, 8, (CHOOSE k \in closing : \A m \in closing : m <= k) - 1)]
       ELSE [matched |-> FALSE, marker_id |-> <<>>]

\* find_element_with_id (lines 177-179): the first element below the root
\* with that id, 0 for None
find_element_with_id(t, element_id) ==
    LET hits == {i \in DOMAIN t : "id" \in DOMAIN t[i] /\ t[i]["id"] = element_id}
    IN IF hits = {} THEN 0 ELSE CHOOSE i \in hits : \A j \in hits : i <= j

\* c.startswith('fill') or c.startswith('stroke') (line 191)
StartsWithFillOrStroke(c) == Len(c) >= 1 /\ c[1] \in {"fill", "stroke"}

\* line 191: the class strings of the element that are propagated, in order
PropagatedClasses(attrib) ==
    SelectSeq(Split(attrib["class"], " "), StartsWithFillOrStroke)

\* the chunks of the style attribute of element i (line 189)
Chunks(t, i) ==
    IF "style" \in DOMAIN t[i] THEN Split(t[i]["style"], ";") ELSE <<>>

\* mutant: a marker that is not found is passed over instead of raising
ChunkOutcome_SkipMissing(t, el, ch, ff) ==
    LET m == MarkerMatch(Chunks(t, el)[ch])
    IN IF ~m.matched \/ "class" \notin DOMAIN t[el] THEN "skip"
       ELSE IF find_element_with_id(t, m.marker_id) = 0 THEN "skip"
       ELSE IF /\ ff
               /\ PropagatedClasses(t[el]) # <<>>
               /\ Len(Split(PropagatedClasses(t[el])[1], "-")) < 2
            THEN "IndexError"
       ELSE "write"

\* what lines 190-204 do at chunk ch of element el: "skip" when the condition
\* of line 190 is false, "AttributeError" when the marker is None (line 194),
\* "IndexError" when the first class has no "-" (line 201), else "write"
ChunkOutcome(t, el, ch, ff) ==
    LET m == MarkerMatch(Chunks(t, el)[ch])
    IN IF ~m.matched \/ "class" \notin DOMAIN t[el] THEN "skip"
       ELSE IF find_element_with_id(t, m.marker_id) = 0 THEN "AttributeError"
       ELSE IF /\ ff
               /\ PropagatedClasses(t[el]) # <<>>
               /\ Len(Split(PropagatedClasses(t[el])[1], "-")) < 2
            THEN "IndexError"
       ELSE "write"

\* lines 194-202: the class set of the marker after the update
MarkerClasses(t, el, ch, ff) ==
    LET classes == PropagatedClasses(t[el])
        marker == t[find_element_with_id(t, MarkerMatch(Chunks(t, el)[ch]).marker_id)]
    IN InitialClasses(marker)
       \cup Range(classes)
       \cup (IF ff /\ classes # <<>>
             THEN {<<"fill", "-">> \o Split(classes[1], "-")[2]} ELSE {})

\* lines 203-204: the tree with the class attribute of the marker written
WriteMarker(t, el, ch, ff, order) ==
    LET k == find_element_with_id(t, MarkerMatch(Chunks(t, el)[ch]).marker_id)
    IN [t EXCEPT ![k] = WriteClass(t[k], MarkerClasses(t, el, ch, ff), order)]

\* the position after chunk ch of element el
NextCursor(t, el, ch) ==
    IF ch < Len(Chunks(t, el)) THEN [el |-> el, ch |-> ch + 1]
    ELSE [el |-> el + 1, ch |-> 1]

----------------------------------------------------------------------------
(* Inputs of replace_color *)

\* all strings made of 1..n chunks joined by sep
RECURSIVE Joined(_, _, _)
Joined(chunks, sep, n) ==
    IF n = 0 THEN {}
    ELSE chunks \cup {c \o <<sep>> \o r : c \in chunks, r \in Joined(chunks, sep, n - 1)}

ColorLiterals == {<<"#", "f00">>, <<"#", "0f0">>, <<"none">>}

\* the class-name suffix each literal stands for when it is a key
NameOf(lit) ==
    CASE lit = <<"#", "f00">> -> <<"red">>
      [] lit = <<"#", "0f0">> -> <<"green">>
      [] lit = <<"none">> -> <<"none">>

\* the color-mapping dicts: "#0f0" and "none" may be missing from the keys
ColorMappings ==
    {[k \in K \cup {<<"#", "f00">>} |-> NameOf(k)] : K \in SUBSET ColorLiterals}

\* the ';'-separated chunks a style attribute is made of; the empty chunk is
\* what a trailing ';' leaves
RewriteChunks ==
    { <<>>,
      <<"fill", ":", "#", "f00">>,
      <<" ", "fill", " ", ":", " ", "#", "0f0">>,
      <<"fill", ":", "none">>,
      <<"stroke", ":", "#", "f00">> }

StyleValues == Joined(RewriteChunks, ";", MaxDecls)

ClassValues ==
    { <<>>,
      <<"a", "\t", "b">>,
      <<"fill", "-", "green", " ", " ">> }

\* the attrib dicts of the elements the loop may meet
ElementAttribs ==
    {[n \in N |-> CASE n = "style" -> st [] n = "fill" -> fl
                     [] n = "stroke" -> sk [] n = "class" -> cl] :
        N \in SUBSET {"style", "fill", "stroke", "class"},
        st \in StyleValues, fl \in ColorLiterals,
        sk \in {<<"#", "f00">>}, cl \in ClassValues}

----------------------------------------------------------------------------
(* replace_color as a state machine.  The loop at line 147 reads and writes
   only the element it is at, so the tree is the element under the loop. *)

RewriteInit ==
    /\ color_mapping \in ColorMappings
    /\ element_in \in ElementAttribs
    /\ element = element_in
    /\ rc_status = "start"
    /\ style_element = [exists |-> FALSE, has_text |-> FALSE, text |-> <<>>]
    /\ new_colors = <<>>
    /\ style_in = <<>>
    /\ style_out = <<>>
    /\ MarkersIdle

\* the iteration of the loop at line 147 on the element, run to its end
ReplaceColorElement ==
    /\ rc_status = "start"
    /\ ~ReplaceColorRaises(element, color_mapping)
    /\ \E order \in ClassOrders(element, color_mapping) :
            element' = ReplaceColorBody(element, color_mapping, order)
    /\ rc_status' = "visited"
    /\ UNCHANGED <<color_mapping, element_in, us_vars, dm_vars, lm_vars>>

\* the iteration when line 128 raises ValueError: the element is left as it was
ReplaceColorError ==
    /\ rc_status = "start"
    /\ ReplaceColorRaises(element, color_mapping)
    /\ rc_status' = "error"
    /\ UNCHANGED <<color_mapping, element_in, element, us_vars, dm_vars, lm_vars>>

\* root.iter() is exhausted and replace_color returns
ReplaceColorReturn ==
    /\ rc_status = "visited"
    /\ rc_status' = "done"
    /\ UNCHANGED <<color_mapping, element_in, element, us_vars, dm_vars, lm_vars>>

RewriteNext == ReplaceColorElement \/ ReplaceColorError \/ ReplaceColorReturn

SpecRewrite == RewriteInit /\ [][RewriteNext]_vars

----------------------------------------------------------------------------
(* Vocabulary of the properties of replace_color *)

\* the whitespace-separated tokens of a string
Tokens(s) ==
    LET RECURSIVE F(_, _, _)
        F(i, cur, acc) ==
            IF i > Len(s) THEN (IF cur = <<>> THEN acc ELSE acc \cup {cur})
            ELSE IF s[i] \in WS
                 THEN F(i + 1, <<>>, IF cur = <<>> THEN acc ELSE acc \cup {cur})
                 ELSE F(i + 1, Append(cur, s[i]), acc)
    IN F(1, <<>>, {})

\* the class tokens of an attrib dict
ClassTokens(attrib) ==
    IF "class" \in DOMAIN attrib THEN Tokens(attrib["class"]) ELSE {}

\* the tokens that begin with prop followed by "-"
PropTokens(toks, prop) ==
    {t \in toks : Len(t) >= 2 /\ t[1] = prop /\ t[2] = "-"}

\* the well-formed declarations of a style string, in order, as [attr, value];
\* a chunk that is not attr:value is left out
Declarations(style) ==
    LET chunks == Split(Strip(style), ";")
        RECURSIVE F(_)
        F(i) == IF i > Len(chunks) THEN <<>>
                ELSE LET parts == Split(chunks[i], ":")
                     IN (IF Len(parts) = 2
                         THEN <<[attr |-> Strip(parts[1]), value |-> Strip(parts[2])]>>
                         ELSE <<>>) \o F(i + 1)
    IN F(1)

\* the declarations of the style attribute of an attrib dict
StyleDecls(attrib) ==
    IF "style" \in DOMAIN attrib THEN Declarations(attrib["style"]) ELSE <<>>

\* the values the style declares for prop, in order
DeclaredValues(attrib, prop) ==
    SelectSeq(StyleDecls(attrib), LAMBDA d : d.attr = <<prop>>)

\* the style declares prop with a value that is a key of the mapping
StyleResolves(attrib, prop, mapping) ==
    \E i \in DOMAIN DeclaredValues(attrib, prop) :
        DeclaredValues(attrib, prop)[i].value \in DOMAIN mapping

\* the loop is past the element
Visited == rc_status \in {"visited", "done"}

\* prop followed by "-" and the mapped name of value
ClassFor(prop, value) == <<prop, "-">> \o color_mapping[value]

----------------------------------------------------------------------------
(* C1 *)

\* C1: an element with a plain fill (stroke) attribute whose value is a key of
\* the mapping, and whose style does not resolve that property, ends without
\* the attribute and with the class fill-<name> (stroke-<name>) beside every
\* class token it had.
C1_PlainAttributeBecomesClass ==
    Visited =>
        \A prop \in {"fill", "stroke"} :
            ( /\ prop \in DOMAIN element_in
              /\ element_in[prop] \in DOMAIN color_mapping
              /\ ~StyleResolves(element_in, prop, color_mapping) )
            => /\ prop \notin DOMAIN element
               /\ ClassFor(prop, element_in[prop]) \in ClassTokens(element)
               /\ ClassTokens(element_in) \subseteq ClassTokens(element)

\* C1 witness: a rewritten element that had a style, class tokens and a mapped
\* plain fill attribute
C1_Witness ==
    /\ rc_status = "done"
    /\ {"fill", "style", "class"} \subseteq DOMAIN element_in
    /\ element_in["fill"] \in DOMAIN color_mapping
    /\ ~StyleResolves(element_in, "fill", color_mapping)
    /\ StyleDecls(element_in) # <<>>
    /\ Cardinality(ClassTokens(element_in)) = 2
    /\ "fill" \notin DOMAIN element

----------------------------------------------------------------------------
(* C5 *)

\* C5 as stated: with a style declaration prop:X and a plain attribute
\* prop="Y", X and Y keys mapped to different names, the class contains
\* prop-<mapping[X]> and not prop-<mapping[Y]>, the declaration is gone from
\* the style and the plain attribute is deleted.
C5_AsStated ==
    Visited =>
        \A prop \in {"fill", "stroke"} :
            \A i \in DOMAIN DeclaredValues(element_in, prop) :
                LET X == DeclaredValues(element_in, prop)[i].value
                IN ( /\ prop \in DOMAIN element_in
                     /\ X \in DOMAIN color_mapping
                     /\ element_in[prop] \in DOMAIN color_mapping
                     /\ color_mapping[X] # color_mapping[element_in[prop]] )
                   => /\ ClassFor(prop, X) \in ClassTokens(element)
                      /\ ClassFor(prop, element_in[prop]) \notin ClassTokens(element)
                      /\ \A j \in DOMAIN DeclaredValues(element, prop) :
                            DeclaredValues(element, prop)[j].value # X
                      /\ prop \notin DOMAIN element

\* the values the style declares for prop that are keys other than "none"
ColorValues(attrib, prop, mapping) ==
    SelectSeq(DeclaredValues(attrib, prop),
              LAMBDA d : d.value \in DOMAIN mapping /\ d.value # <<"none">>)

\* C5 amended: when X is not "none" and prop:X is the last declaration of the
\* style for prop whose value is a key other than "none", the class contains
\* prop-<mapping[X]>, it contains prop-<mapping[Y]> only if that token was
\* on the element before, no declaration of prop with a key as its value is
\* left in the style, and the plain attribute is deleted.
C5_StylePrecedence ==
    Visited =>
        \A prop \in {"fill", "stroke"} :
            LET cv == ColorValues(element_in, prop, color_mapping)
                X == cv[Len(cv)].value
            IN ( /\ prop \in DOMAIN element_in
                 /\ cv # <<>>
                 /\ element_in[prop] \in DOMAIN color_mapping
                 /\ color_mapping[X] # color_mapping[element_in[prop]] )
               => /\ ClassFor(prop, X) \in ClassTokens(element)
                  /\ ClassFor(prop, element_in[prop]) \in ClassTokens(element)
                        => ClassFor(prop, element_in[prop]) \in ClassTokens(element_in)
                  /\ ~StyleResolves(element, prop, color_mapping)
                  /\ prop \notin DOMAIN element

\* C5 witness: style="fill:#f00" beside fill="#0f0", both keys, rewritten
C5_Witness ==
    /\ rc_status = "done"
    /\ {"fill", "style"} \subseteq DOMAIN element_in
    /\ Len(ColorValues(element_in, "fill", color_mapping)) = 1
    /\ ColorValues(element_in, "fill", color_mapping)[1].value = <<"#", "f00">>
    /\ element_in["fill"] = <<"#", "0f0">>
    /\ <<"#", "0f0">> \in DOMAIN color_mapping
    /\ <<"fill", "-", "red">> \in ClassTokens(element)
    /\ <<"fill", "-", "green">> \notin ClassTokens(element)

----------------------------------------------------------------------------
(* C6 *)

\* the style string without its declarations prop:none
WithoutNone(style, prop) ==
    LET chunks == Split(Strip(style), ";")
        keep == SelectSeq(chunks, LAMBDA c :
                    LET parts == Split(c, ":")
                    IN ~( /\ Len(parts) = 2
                          /\ Strip(parts[1]) = <<prop>>
                          /\ Strip(parts[2]) = <<"none">> ))
    IN Join(keep, ";")

\* the style declares prop, and declares it none only
ResolvesToNone(attrib, prop) ==
    LET dv == DeclaredValues(attrib, prop)
    IN dv # <<>> /\ \A i \in DOMAIN dv : dv[i].value = <<"none">>

\* every chunk of the style is attr:value
WellFormed(attrib) ==
    "style" \in DOMAIN attrib =>
        \A c \in Range(Split(Strip(attrib["style"]), ";")) : Len(Split(c, ":")) = 2

\* the other one of fill and stroke
Other(prop) == IF prop = "fill" THEN "stroke" ELSE "fill"

\* C6: an element whose style resolves fill (stroke) to none is processed
\* without error under every mapping, gains no fill-* (stroke-*) class, its
\* plain attribute is not consulted, and its other property gets the class it
\* would get with the none declaration absent.
C6_NoneSuppression ==
    \A prop \in {"fill", "stroke"} :
        (ResolvesToNone(element_in, prop) /\ WellFormed(element_in))
        => /\ rc_status # "error"
           /\ Visited =>
               /\ PropTokens(ClassTokens(element), prop)
                     \subseteq PropTokens(ClassTokens(element_in), prop)
               /\ \A order \in ClassOrders(element_in, color_mapping) :
                     PropTokens(ClassTokens(element), Other(prop)) =
                     PropTokens(ClassTokens(ReplaceColorBody(
                         With(element_in, "style",
                              WithoutNone(element_in["style"], prop)),
                         color_mapping, order)), Other(prop))

----------------------------------------------------------------------------
(* C10 *)

\* the string is one or more non-empty tokens, no two equal, joined by single spaces
SingleSpaced(s) ==
    LET pieces == Split(s, " ")
    IN /\ \A i \in DOMAIN pieces :
            pieces[i] # <<>> /\ \A k \in DOMAIN pieces[i] : pieces[i][k] \notin WS
       /\ \A i, j \in DOMAIN pieces : pieces[i] = pieces[j] => i = j

\* C10: after replace_color the class attribute is absent or is distinct
\* non-empty tokens joined by single spaces, and an element with no matched
\* colour and no class token before has no class attribute.
C10_ClassSetInvariant ==
    Visited =>
        /\ "class" \in DOMAIN element => SingleSpaced(element["class"])
        /\ ( /\ ClassTokens(element_in) = {}
             /\ PropTokens(ClassTokens(element), "fill") = {}
             /\ PropTokens(ClassTokens(element), "stroke") = {} )
           => "class" \notin DOMAIN element

----------------------------------------------------------------------------
(* update_svg_style *)

\* the symbols that are not runs of letters and digits
Punctuation ==
    {".", "-", " ", "\t", "\n", "\n        ", "{", "}", "(", ")", ":", ";", "#", "SOH", ""}

\* the words made of three or of six hexadecimal digits
HexWords == {"f00", "0f0", "00ff00"}

\* the words made of a hexadecimal digit and "3", once or twice: what
\* [a-fA-F0-9]3([a-fA-F0-9]3)? matches
Digit3Words == {"a3", "a3b3"}

\* the symbol at position i, "" past the end
At(text, i) == IF i \in 1..Len(text) THEN text[i] ELSE ""

\* the end of the longest run of letters and digits that starts at i (i - 1 if none)
RECURSIVE AlnumEnd(_, _)
AlnumEnd(text, i) ==
    IF At(text, i) \in Punctuation THEN i - 1 ELSE AlnumEnd(text, i + 1)

\* css_pattern (line 80) tried at position i: the match as
\* [end, rule_type, color_name, color], end = 0 when there is none
CssMatchAt(text, i) ==
    LET k == AlnumEnd(text, i + 3)
        ok == /\ At(text, i) \notin {"", "\n"}
              /\ At(text, i + 1) \in {"fill", "stroke"}
              /\ At(text, i + 2) = "-"
              /\ k >= i + 3
              /\ At(text, k + 1) = " "
              /\ At(text, k + 2) = "{"
              /\ At(text, k + 3) = At(text, i + 1)
              /\ At(text, k + 4) = ":"
              /\ At(text, k + 5) = "#"
              /\ At(text, k + 6) \in HexWords
              /\ At(text, k + 7) = ";"
              /\ At(text, k + 8) = "}"
    IN IF ok THEN [end |-> k + 8, rule_type |-> text[i + 1],
                   color_name |-> SubSeq(text, i + 3, k), color |-> text[k + 6]]
       ELSE [end |-> 0, rule_type |-> "", color_name |-> <<>>, color |-> ""]

\* re.finditer(css_pattern, text): the matches from left to right, not overlapping
CssRules(text) ==
    LET RECURSIVE F(_)
        F(i) == IF i > Len(text) THEN <<>>
                ELSE LET m == CssMatchAt(text, i)
                     IN IF m.end > 0 THEN <<m>> \o F(m.end + 1) ELSE F(i + 1)
    IN F(1)

\* the pattern of line 94 as Python builds it, tried at position i.  In the
\* f-string, which is not a raw string, "\1" is the character U+0001 (the
\* symbol "SOH") and each {3} is the text "3".  The end of the match, 0 if none.
SubMatchAt(text, i, rule_type, color_name) ==
    LET n == Len(color_name)
        ok == /\ At(text, i) \notin {"", "\n"}
              /\ At(text, i + 1) = rule_type
              /\ At(text, i + 2) = "-"
              /\ i + 2 + n <= Len(text)
              /\ SubSeq(text, i + 3, i + 2 + n) = color_name
              /\ At(text, i + n + 3) = " "
              /\ At(text, i + n + 4) = "{"
              /\ At(text, i + n + 5) = "SOH"
              /\ At(text, i + n + 6) = ":"
              /\ At(text, i + n + 7) = "#"
              /\ At(text, i + n + 8) \in Digit3Words
              /\ At(text, i + n + 9) = ";"
              /\ At(text, i + n + 10) = "}"
    IN IF ok THEN i + n + 10 ELSE 0

\* the text of a rule as lines 95, 103 and 104 format it
RuleText(rule_type, color_name, color_value) ==
    <<".", rule_type, "-">> \o color_name \o <<" ", "{", rule_type, ":">>
        \o color_value \o <<";", "}">>

\* re.sub of lines 93-97: every match of the pattern replaced by the rule
\* with the new colour
SubRule(text, rule_type, color_name, new_color) ==
    LET RECURSIVE F(_)
        F(i) == IF i > Len(text) THEN <<>>
                ELSE LET e == SubMatchAt(text, i, rule_type, color_name)
                     IN IF e > 0
                        THEN RuleText(rule_type, color_name, new_color) \o F(e + 1)
                        ELSE <<text[i]>> \o F(i + 1)
    IN F(1)

\* color_name in new_colors
InColors(colors, color_name) == \E i \in DOMAIN colors : colors[i].name = color_name

\* new_colors[color_name]
ColorOf(colors, color_name) ==
    colors[CHOOSE i \in DOMAIN colors : colors[i].name = color_name].value

\* lines 86-98: the loop over the matches; [text, updated_colors] at its end
UpdateRules(content, colors) ==
    LET rules == CssRules(content)
        RECURSIVE F(_, _, _)
        F(i, text, updated) ==
            IF i > Len(rules) THEN [text |-> text, updated_colors |-> updated]
            ELSE IF InColors(colors, rules[i].color_name)
                 THEN F(i + 1,
                        SubRule(text, rules[i].rule_type, rules[i].color_name,
                                ColorOf(colors, rules[i].color_name)),
                        updated \cup {rules[i].color_name})
                 ELSE F(i + 1, text, updated)
    IN F(1, content, {})

\* the "\n        " that starts each appended rule (lines 103-104), one symbol
Indent == <<"\n        ">>

\* lines 101-104: the rules appended for the colours not in updated_colors
AppendRules(text, colors, updated) ==
    LET RECURSIVE F(_, _)
        F(i, t) ==
            IF i > Len(colors) THEN t
            ELSE IF colors[i].name \notin updated
                 THEN F(i + 1, t \o Indent \o RuleText("fill", colors[i].name, colors[i].value)
                                 \o Indent \o RuleText("stroke", colors[i].name, colors[i].value))
                 ELSE F(i + 1, t)
    IN F(1, text)

\* get_style_element (lines 50-64): the element found, or a new one with text ""
get_style_element(el) ==
    IF el.exists THEN el ELSE [exists |-> TRUE, has_text |-> TRUE, text |-> <<>>]

\* str(style_element.text) (line 77): an element without text gives "None"
StyleContent(el) == IF el.has_text THEN el.text ELSE <<"None">>

\* update_svg_style: the text it writes to the style element (line 106)
update_svg_style(el, colors) ==
    LET content == StyleContent(get_style_element(el))
        upd == UpdateRules(content, colors)
    IN AppendRules(upd.text, colors, upd.updated_colors)

----------------------------------------------------------------------------
(* Inputs of update_svg_style *)

\* all sequences of 0..n members of S
RECURSIVE SeqsUpTo(_, _)
SeqsUpTo(S, n) ==
    IF n = 0 THEN {<<>>}
    ELSE SeqsUpTo(S, n - 1)
         \cup {Append(q, x) : q \in SeqsUpTo(S, n - 1), x \in S}

ThemeNames == {<<"red">>, <<"blue">>, <<"dark", "-", "red">>}

ThemeValues == {<<"#", "f00">>, <<"#", "00ff00">>}

\* the theme tables: a dict keeps its keys distinct and in the order of the file
ThemeTables ==
    {t \in SeqsUpTo([name : ThemeNames, value : ThemeValues], MaxThemeColors) :
        \A i, j \in DOMAIN t : t[i].name = t[j].name => i = j}

\* rules a style text may hold before the first run
ExistingRules ==
    { RuleText("fill", <<"red">>, <<"#", "0f0">>),
      RuleText("stroke", <<"red">>, <<"#", "f00">>),
      RuleText("fill", <<"dark", "-", "red">>, <<"#", "f00">>),
      <<".", "fill", "-", "blue", " ", "{", "stroke", ":", "#", "f00", ";", "}">> }

\* the <style> element of the input: none, one without text, one with rules
StyleElements ==
    { [exists |-> FALSE, has_text |-> FALSE, text |-> <<>>],
      [exists |-> TRUE, has_text |-> FALSE, text |-> <<>>] }
    \cup {[exists |-> TRUE, has_text |-> TRUE, text |-> t] :
            t \in Joined(ExistingRules, "\n        ", MaxRules)}

----------------------------------------------------------------------------
(* update_svg_style as a state machine: each step is one call *)

StyleInit ==
    /\ style_element \in StyleElements
    /\ new_colors \in ThemeTables
    /\ style_in = StyleContent(get_style_element(style_element))
    /\ style_out = <<>>
    /\ color_mapping = <<>>
    /\ element_in = <<>>
    /\ element = <<>>
    /\ rc_status = "idle"
    /\ MarkersIdle

\* one call of update_svg_style with the theme table
UpdateSvgStyle ==
    /\ Len(style_out) < MaxRuns
    /\ LET text == update_svg_style(style_element, new_colors)
       IN /\ style_element' = [exists |-> TRUE, has_text |-> TRUE, text |-> text]
          /\ style_out' = Append(style_out, text)
    /\ UNCHANGED <<new_colors, style_in, rc_vars, dm_vars, lm_vars>>

StyleNext == UpdateSvgStyle

SpecStyle == StyleInit /\ [][StyleNext]_vars

----------------------------------------------------------------------------
(* C3 *)

\* the rules of a text whose name is color_name
RulesNamed(text, color_name) ==
    SelectSeq(CssRules(text), LAMBDA m : m.color_name = color_name)

\* C3: after update_svg_style every rule that was in the style text with a
\* name of the theme table carries the theme's value for the name, no rule is
\* appended for such a name, and the text written is the element's content.
C3_ExistingRuleRewritten ==
    Len(style_out) >= 1 =>
        /\ \A i \in DOMAIN CssRules(style_in) :
              LET name == CssRules(style_in)[i].color_name
              IN InColors(new_colors, name) =>
                  /\ Len(RulesNamed(style_out[1], name)) = Len(RulesNamed(style_in, name))
                  /\ \A j \in DOMAIN RulesNamed(style_out[1], name) :
                        <<"#", RulesNamed(style_out[1], name)[j].color>>
                            = ColorOf(new_colors, name)
        /\ style_element.text = style_out[Len(style_out)]

----------------------------------------------------------------------------
(* C4 *)

\* C4: a second run of update_svg_style with the same theme table leaves the
\* style text exactly as the first run wrote it.
C4_UpsertIdempotent ==
    Len(style_out) >= 2 => style_out[2] = style_out[1]

----------------------------------------------------------------------------
(* Inputs of deal_with_markers.  The root element carries no style, and the
   elements below it are the markers followed by the elements that use them. *)

\* marker-<which>:url(#<id>)
MarkerDecl(which, id) == <<"marker", "-", which, ":", "url", "(", "#", id, ")">>

\* the style attributes of the elements that reference markers
MarkerStyles ==
    { MarkerDecl("end", "m1"),
      <<"opacity", ":", "1", ";">> \o MarkerDecl("mid", "m2") \o <<";">>
          \o MarkerDecl("start", "m1") }

\* the class attributes of the elements that reference markers
ReferrerClasses ==
    { <<"fill", "-", "red">>,
      <<"a", " ", "stroke", "-", "dark", "-", "red">>,
      <<"fill", "ed">> }

\* the elements that reference markers: a style, and a class or none
Referrers ==
    {[n \in {"style"} |-> st] : st \in MarkerStyles}
    \cup {[n \in {"style", "class"} |-> IF n = "style" THEN st ELSE cl] :
            st \in MarkerStyles, cl \in ReferrerClasses}

\* the marker elements of the document: m1 with a class, m2 without, or neither
MarkerSections ==
    LET m1 == <<[id |-> <<"m1">>, class |-> <<"stroke", "-", "blue">>]>>
        m2 == <<[id |-> <<"m2">>]>>
    IN {<<>>, m1, m2, m1 \o m2}

\* all sequences of 1..n members of S
NonEmptySeqs(S, n) == SeqsUpTo(S, n) \ {<<>>}

----------------------------------------------------------------------------
(* deal_with_markers as a state machine: one step per chunk of a style *)

MarkersInit ==
    /\ tree \in {ms \o rs : ms \in MarkerSections, rs \in NonEmptySeqs(Referrers, MaxElems)}
    /\ tree_in = tree
    /\ force_fill \in BOOLEAN
    /\ cursor = [el |-> 1, ch |-> 1]
    /\ dm_status = "running"
    /\ color_mapping = <<>>
    /\ element_in = <<>>
    /\ element = <<>>
    /\ rc_status = "idle"
    /\ style_element = [exists |-> FALSE, has_text |-> FALSE, text |-> <<>>]
    /\ new_colors = <<>>
    /\ style_in = <<>>
    /\ style_out = <<>>
    /\ LoadersIdle

\* the loops are at a chunk of the style of an element
AtChunk ==
    /\ dm_status = "running"
    /\ cursor.el \in DOMAIN tree
    /\ cursor.ch \in DOMAIN Chunks(tree, cursor.el)

\* line 188: an element without a style attribute is passed over
MarkerSkipElement ==
    /\ dm_status = "running"
    /\ cursor.el \in DOMAIN tree
    /\ Chunks(tree, cursor.el) = <<>>
    /\ cursor' = [el |-> cursor.el + 1, ch |-> 1]
    /\ UNCHANGED <<tree, tree_in, force_fill, dm_status, rc_vars, us_vars, lm_vars>>

\* line 190: the chunk is no marker reference, or the element has no class
MarkerSkipChunk ==
    /\ AtChunk
    /\ ChunkOutcome(tree, cursor.el, cursor.ch, force_fill) = "skip"
    /\ cursor' = NextCursor(tree, cursor.el, cursor.ch)
    /\ UNCHANGED <<tree, tree_in, force_fill, dm_status, rc_vars, us_vars, lm_vars>>

\* lines 191-204: the classes of the element are added to the marker
MarkerPropagate ==
    /\ AtChunk
    /\ ChunkOutcome(tree, cursor.el, cursor.ch, force_fill) = "write"
    /\ \E order \in Orders(MarkerClasses(tree, cursor.el, cursor.ch, force_fill)) :
            tree' = WriteMarker(tree, cursor.el, cursor.ch, force_fill, order)
    /\ cursor' = NextCursor(tree, cursor.el, cursor.ch)
    /\ UNCHANGED <<tree_in, force_fill, dm_status, rc_vars, us_vars, lm_vars>>

\* line 194 or line 201 raises: deal_with_markers ends, the tree as it is
MarkerError ==
    /\ AtChunk
    /\ ChunkOutcome(tree, cursor.el, cursor.ch, force_fill)
            \in {"AttributeError", "IndexError"}
    /\ dm_status' = "error"
    /\ UNCHANGED <<tree, tree_in, force_fill, cursor, rc_vars, us_vars, lm_vars>>

\* root.iter() is exhausted and deal_with_markers returns
MarkerReturn ==
    /\ dm_status = "running"
    /\ cursor.el > Len(tree)
    /\ dm_status' = "done"
    /\ UNCHANGED <<tree, tree_in, force_fill, cursor, rc_vars, us_vars, lm_vars>>

MarkersNext ==
    \/ MarkerSkipElement
    \/ MarkerSkipChunk
    \/ MarkerPropagate
    \/ MarkerError
    \/ MarkerReturn

SpecMarkers == MarkersInit /\ [][MarkersNext]_vars

----------------------------------------------------------------------------
(* Vocabulary of the properties of deal_with_markers *)

\* the whitespace-separated tokens of a string, in order
TokenSeq(s) ==
    LET RECURSIVE F(_, _)
        F(i, cur) ==
            IF i > Len(s) THEN (IF cur = <<>> THEN <<>> ELSE <<cur>>)
            ELSE IF s[i] \in WS
                 THEN (IF cur = <<>> THEN <<>> ELSE <<cur>>) \o F(i + 1, <<>>)
                 ELSE F(i + 1, Append(cur, s[i]))
    IN F(1, <<>>)

\* the class tokens of an element that begin with fill- or stroke-, in order
Prefixed(attrib) ==
    IF "class" \notin DOMAIN attrib THEN <<>>
    ELSE SelectSeq(TokenSeq(attrib["class"]),
                   LAMBDA c : Len(c) >= 2 /\ c[1] \in {"fill", "stroke"} /\ c[2] = "-")

\* the ids the style of element el references with marker-start, -mid or -end
References(t, el) ==
    {MarkerMatch(Chunks(t, el)[ch]).marker_id :
        ch \in {c \in DOMAIN Chunks(t, el) : MarkerMatch(Chunks(t, el)[c]).matched}}

\* the elements whose style references the id of element m
ReferrersOf(t, m) ==
    {el \in DOMAIN t : "id" \in DOMAIN t[m] /\ t[m]["id"] \in References(t, el)}

\* the chunks the loops have gone past
Passed ==
    {p \in UNION {{[el |-> e, ch |-> c] : c \in DOMAIN Chunks(tree, e)} : e \in DOMAIN tree} :
        \/ p.el < cursor.el
        \/ p.el = cursor.el /\ p.ch < cursor.ch}

\* chunk p references an id that no element has
Dangling(p) ==
    LET m == MarkerMatch(Chunks(tree, p.el)[p.ch])
    IN m.matched /\ find_element_with_id(tree, m.marker_id) = 0

\* the classes written for the chunks gone past are on their markers
WrittenKept ==
    \A p \in Passed :
        LET m == MarkerMatch(Chunks(tree, p.el)[p.ch])
            k == find_element_with_id(tree, m.marker_id)
        IN (m.matched /\ "class" \in DOMAIN tree[p.el] /\ k # 0)
           => Range(PropagatedClasses(tree[p.el])) \subseteq ClassTokens(tree[k])

----------------------------------------------------------------------------
(* C7 *)

\* C7: with force_fill off, when all elements have been visited the class set
\* of every marker is its class set before, united with the tokens that
\* begin with fill- or stroke- of every element that references it.
C7_MarkerUnion ==
    (dm_status = "done" /\ ~force_fill) =>
        \A m \in DOMAIN tree :
            "id" \in DOMAIN tree[m] =>
                ClassTokens(tree[m]) =
                    ClassTokens(tree_in[m])
                    \cup UNION {Range(Prefixed(tree_in[el])) : el \in ReferrersOf(tree_in, m)}

----------------------------------------------------------------------------
(* C8 *)

\* C8: with force_fill on, a marker gains fill-<name> for every referencing
\* element that contributes a token, <name> being all the text after the
\* first "-" of the first contributed token; with force_fill off the marker
\* holds no token beyond its own and those of the referencing elements.
C8_ForceFill ==
    dm_status = "done" =>
        \A m \in DOMAIN tree :
            "id" \in DOMAIN tree[m] =>
                /\ force_fill =>
                    \A el \in ReferrersOf(tree_in, m) :
                        Prefixed(tree_in[el]) # <<>> =>
                            LET first == Prefixed(tree_in[el])[1]
                            IN <<"fill", "-">> \o SubSeq(first, 3, Len(first))
                                   \in ClassTokens(tree[m])
                /\ ~force_fill =>
                    ClassTokens(tree[m]) \subseteq
                        ClassTokens(tree_in[m])
                        \cup UNION {ClassTokens(tree_in[el]) : el \in ReferrersOf(tree_in, m)}

----------------------------------------------------------------------------
(* C9 *)

\* C9 as stated: no reference to an id that no element has is ever passed
\* over, whether its element has a class attribute or not, and the classes
\* written before stay on the markers.
C9_AsStated ==
    /\ \A p \in Passed : ~Dangling(p)
    /\ WrittenKept

\* C9 amended: a reference marker-start|mid|end:url(#<id>) to an id that no
\* element has, on an element that has a class attribute, is never passed
\* over: deal_with_markers ends in an error there (it cannot return), and the
\* classes written before stay on the markers.
C9_DanglingReferenceFatal ==
    /\ \A p \in Passed : ~(Dangling(p) /\ "class" \in DOMAIN tree[p.el])
    /\ WrittenKept

\* C9 witness: the error is raised at a reference to a missing marker after an
\* earlier reference has written classes onto a marker
C9_Witness ==
    /\ dm_status = "error"
    /\ Dangling(cursor)
    /\ "class" \in DOMAIN tree[cursor.el]
    /\ tree # tree_in

----------------------------------------------------------------------------
(* Inputs of the loaders *)

IniKeys == {<<"red">>, <<"blue">>}

\* the values of themes.ini: hexadecimal digits without "#"
IniValues == {<<"f00">>, <<"00ff00">>}

\* the items of a section: its keys are distinct
IniSections ==
    {t \in SeqsUpTo([name : IniKeys, value : IniValues], MaxThemeColors) :
        \A i, j \in DOMAIN t : t[i].name = t[j].name => i = j}

\* themes.ini: one or two sections
ThemeFiles ==
    {<<[name |-> "dark", items |-> a]>> : a \in IniSections}
    \cup {<<[name |-> "dark", items |-> a], [name |-> "light", items |-> b]>> :
            a \in IniSections, b \in IniSections}

\* color_mapping.ini: configparser reads a line that starts with "#" as a
\* comment, so no key of the section starts with "#"
MappingFiles ==
    { <<>>,
      (<<"white">> :> <<"white">>),
      (<<"none">> :> <<"none">>) @@ (<<"red">> :> <<"red">>) }

----------------------------------------------------------------------------
(* The loaders as a state machine: lines 250 and 251 of __main__ *)

LoadersInit ==
    /\ themes_ini \in ThemeFiles
    /\ mapping_ini \in MappingFiles
    /\ theme_colors = <<>>
    /\ lm_status = "start"
    /\ color_mapping = <<>>
    /\ element_in = <<>>
    /\ element = <<>>
    /\ rc_status = "idle"
    /\ style_element = [exists |-> FALSE, has_text |-> FALSE, text |-> <<>>]
    /\ new_colors = <<>>
    /\ style_in = <<>>
    /\ style_out = <<>>
    /\ tree = <<>>
    /\ tree_in = <<>>
    /\ force_fill = FALSE
    /\ cursor = [el |-> 0, ch |-> 0]
    /\ dm_status = "idle"

\* line 250 with --theme naming a section of themes.ini
LoadThemeColors ==
    /\ lm_status = "start"
    /\ \E theme \in {"dark", "light"} :
        /\ InConfig(themes_ini, theme)
        /\ theme_colors' = load_theme_colors(themes_ini, theme)
    /\ lm_status' = "themes"
    /\ UNCHANGED <<themes_ini, mapping_ini, rc_vars, us_vars, dm_vars>>

\* line 250 without --theme: the dict of all themes is returned
LoadAllThemeColors ==
    /\ lm_status = "start"
    /\ theme_colors' = load_all_theme_colors(themes_ini)
    /\ lm_status' = "themes"
    /\ UNCHANGED <<themes_ini, mapping_ini, rc_vars, us_vars, dm_vars>>

\* line 250 with --theme naming no section: ValueError (line 220)
LoadThemeColorsError ==
    /\ lm_status = "start"
    /\ \E theme \in {"dark", "light"} : ~InConfig(themes_ini, theme)
    /\ lm_status' = "error"
    /\ UNCHANGED <<themes_ini, mapping_ini, theme_colors, rc_vars, us_vars, dm_vars>>

\* line 251
LoadColorMapping ==
    /\ lm_status = "themes"
    /\ color_mapping' = load_color_mapping(themes_ini, mapping_ini)
    /\ lm_status' = "mapping"
    /\ UNCHANGED <<themes_ini, mapping_ini, theme_colors,
                   element_in, element, rc_status, us_vars, dm_vars>>

LoadersNext ==
    \/ LoadThemeColors
    \/ LoadAllThemeColors
    \/ LoadThemeColorsError
    \/ LoadColorMapping

SpecLoaders == LoadersInit /\ [][LoadersNext]_vars

----------------------------------------------------------------------------
(* C2 *)

\* C2: for every theme and every entry of it, the value as the Style-Block
\* Manager writes it into a rule ("#" and the digits, what load_theme_colors
\* returns for the theme) is a key of the merged color mapping, mapped to the
\* name of a theme entry with that value even when the base mapping has the key.
C2_ThemeValuesAreKeys ==
    lm_status = "mapping" =>
        \A s \in DOMAIN themes_ini :
            LET colors == load_theme_colors(themes_ini, themes_ini[s].name)
            IN \A i \in DOMAIN colors :
                /\ colors[i].value \in DOMAIN color_mapping
                /\ \E s2 \in DOMAIN themes_ini :
                     \E j \in DOMAIN themes_ini[s2].items :
                        /\ Hash(themes_ini[s2].items[j].value) = colors[i].value
                        /\ color_mapping[colors[i].value] = themes_ini[s2].items[j].name

====
